---------------------------- MODULE Spec2Model ----------------------------
(***************************************************************************)
(* A model of stats_display (src/main.cpp): a single-threaded Win32 widget *)
(* that samples CPU, RAM and NVIDIA GPU figures on a 250 ms timer and      *)
(* writes them, formatted, into the display buffer g_statsText.            *)
(*                                                                         *)
(* Text is modelled by TLA+ strings (Len, \o and SubSeq act on them as on  *)
(* sequences of characters).  A double is modelled by an exact fraction    *)
(* [num, den] with den > 0.  The 64-bit tick counters are modelled as      *)
(* counters modulo Modulus, so that unsigned wrap-around is reachable.     *)
(***************************************************************************)
EXTENDS Integers, Sequences, FiniteSets, TLC

VARIABLES
    previousIdleTime,    \* static unsigned long long previousIdleTime
    previousKernelTime,  \* static unsigned long long previousKernelTime
    previousUserTime,    \* static unsigned long long previousUserTime
    firstCall,           \* static bool firstCall
    g_gpuDataAvailable,  \* bool g_gpuDataAvailable
    g_gpuData,           \* GpuData g_gpuData
    g_statsText,         \* char g_statsText[1024], up to its terminating NUL
    hwnd,                \* the window: "none", "alive", "destroyed" or "crashed"
    timerSet,            \* whether the timer CPU_USAGE_TIMER_ID is set
    sizing,              \* whether the user is inside a size/move loop
    invalidated,         \* whether the client area awaits a WM_PAINT
    timerElapse,         \* the period of the timer in ms, 0 when it is not set
    pc,                  \* where the thread is inside refreshAllData, "idle" outside
    cycle,               \* the locals of the refreshAllData call in progress
    history,             \* the latest counters read, and how the priming call ended
    last                 \* what the latest operation read and returned

vars == <<previousIdleTime, previousKernelTime, previousUserTime, firstCall,
          g_gpuDataAvailable, g_gpuData, g_statsText,
          hwnd, timerSet, sizing, invalidated, timerElapse, pc, cycle, history,
          last>>

cpuVars == <<previousIdleTime, previousKernelTime, previousUserTime, firstCall>>
gpuVars == <<g_gpuDataAvailable, g_gpuData>>
winVars == <<hwnd, timerSet, sizing, invalidated, timerElapse>>
stepVars == <<pc, cycle>>

-----------------------------------------------------------------------------
(* Bounds and program constants *)

\* unsigned long long arithmetic is modelled modulo Modulus (for 2^64),
\* and a DWORD holds DwordSize values (for 2^32)
Modulus == 4

DwordSize == 2

\* #define CPU_USAGE_TIMER_ID 1
CPU_USAGE_TIMER_ID == 1

\* SetTimer(hwnd, CPU_USAGE_TIMER_ID, 250, NULL)
TimerElapse == 250

\* char g_statsText[1024]
StatsTextSize == 1024

\* 1024.0 * 1024.0 * 1024.0, the bytes of one "GB" in getCurrentRamUsage
BytesPerGB == 1073741824

\* data.memoryTotal /= 1024
MBPerGB == 1024

RECURSIVE Pow2(_)
Pow2(n) == IF n = 0 THEN 1 ELSE 2 * Pow2(n - 1)


-----------------------------------------------------------------------------
(* Doubles as exact fractions *)

Rat(n, d) == [num |-> n, den |-> d]

RECURSIVE Gcd(_, _)
Gcd(a, b) == IF b = 0 THEN a ELSE Gcd(b, a % b)

Abs(n) == IF n < 0 THEN -n ELSE n

\* the same value in lowest terms
Reduced(r) ==
    LET g == Gcd(Abs(r.num), r.den)
    IN  Rat(r.num \div g, r.den \div g)

RatEq(r, s) == Reduced(r) = Reduced(s)
RatGeqInt(r, k) == r.num >= k * r.den
RatLeqInt(r, k) == r.num <= k * r.den

-----------------------------------------------------------------------------
(* Text *)

Char(s, i) == SubSeq(s, i, i)

Digit(d) == Char("0123456789", d + 1)

IsDigit(c) == c \in {"0", "1", "2", "3", "4", "5", "6", "7", "8", "9"}

DigitValue(c) == CHOOSE d \in 0 .. 9 : Digit(d) = c

\* operator<< of an unsigned integer: its decimal digits
RECURSIVE UIntToText(_)
UIntToText(n) ==
    IF n < 10 THEN Digit(n) ELSE UIntToText(n \div 10) \o Digit(n % 10)

\* operator<< of a double under std::fixed << std::setprecision(2):
\* the value rounded to hundredths (a tie goes to the even hundredth),
\* printed as integer part, '.', two digits, with '-' for a negative value
FixedText(r) ==
    LET q    == Reduced(r)
        a    == Abs(q.num)
        whole == a \div q.den
        rest == a % q.den
        c    == (rest * 100) \div q.den
        rem2 == 2 * ((rest * 100) % q.den)
        up   == rem2 > q.den \/ (rem2 = q.den /\ c % 2 = 1)
        h    == whole * 100 + c + (IF up THEN 1 ELSE 0)
    IN  (IF q.num < 0 THEN "-" ELSE "")
            \o UIntToText(h \div 100) \o "."
            \o Digit((h \div 10) % 10) \o Digit(h % 10)

-----------------------------------------------------------------------------
(* CPU BLOCK *)

\* FileTimeToInt64, lines 45-47: (dwHighDateTime << 32) | dwLowDateTime
FileTimeToInt64(ft) == ft.dwHighDateTime * DwordSize + ft.dwLowDateTime

\* the FILETIMEs of the model: those of the tick counts below Modulus
FileTimes ==
    {ft \in [dwHighDateTime : 0 .. (Modulus \div DwordSize),
             dwLowDateTime : 0 .. (DwordSize - 1)] : FileTimeToInt64(ft) < Modulus}

\* unsigned long long subtraction and addition
USub(a, b) == (a - b + Modulus) % Modulus
UAdd(a, b) == (a + b) % Modulus

\* What GetSystemTimes gives one call.  ok = FALSE is a failed read, which
\* leaves the three out-parameters unread by the program.
ZeroTime == [dwHighDateTime |-> 0, dwLowDateTime |-> 0]

SystemTimes ==
    [ok : {TRUE}, idleTime : FileTimes, kernelTime : FileTimes, userTime : FileTimes]
        \cup {[ok |-> FALSE, idleTime |-> ZeroTime, kernelTime |-> ZeroTime,
               userTime |-> ZeroTime]}

\* the statics previousIdleTime, previousKernelTime, previousUserTime, firstCall
Statics(idle, kernel, user, first) ==
    [idle |-> idle, kernel |-> kernel, user |-> user, first |-> first]

\* lines 87-90 and 106-108: the statics after a successful read
UpdatedStatics_Swapped(currentIdleTime, currentKernelTime, currentUserTime) ==
    Statics(currentIdleTime, currentUserTime, currentKernelTime, FALSE)

UpdatedStatics(currentIdleTime, currentKernelTime, currentUserTime) ==
    Statics(currentIdleTime, currentKernelTime, currentUserTime, FALSE)

\* line 103: kernelTimeDelta + userTimeDelta, an unsigned long long sum
TotalActivity_NoWrap(kernelTimeDelta, userTimeDelta) ==
    kernelTimeDelta + userTimeDelta

TotalActivity(kernelTimeDelta, userTimeDelta) ==
    UAdd(kernelTimeDelta, userTimeDelta)

\* line 115: (1.0 - idleTimeDelta / totalActivityTime) * 100.0.  A zero
\* denominator stands for the non-finite result of a division by zero.
UsagePercent(idleTimeDelta, totalActivityTime) ==
    Rat(100 * (totalActivityTime - idleTimeDelta), totalActivityTime)

\* getCurrentCpuUsage: the value returned (ret) and the statics left (st),
\* from the statics st and the times t that GetSystemTimes gives
getCurrentCpuUsage_ZeroKeepsBaseline(st, t) ==
    LET currentIdleTime   == FileTimeToInt64(t.idleTime)
        currentKernelTime == FileTimeToInt64(t.kernelTime)
        currentUserTime   == FileTimeToInt64(t.userTime)
        idleTimeDelta     == USub(currentIdleTime, st.idle)
        kernelTimeDelta   == USub(currentKernelTime, st.kernel)
        userTimeDelta     == USub(currentUserTime, st.user)
        totalActivityTime == TotalActivity(kernelTimeDelta, userTimeDelta)
        updated == UpdatedStatics(currentIdleTime, currentKernelTime, currentUserTime)
    IN  IF ~t.ok THEN [ret |-> Rat(-1, 1), st |-> st]
        ELSE IF st.first THEN [ret |-> Rat(0, 1), st |-> updated]
        ELSE IF totalActivityTime = 0 THEN [ret |-> Rat(0, 1), st |-> st]
        ELSE [ret |-> UsagePercent(idleTimeDelta, totalActivityTime), st |-> updated]

getCurrentCpuUsage_FailureResets(st, t) ==
    LET currentIdleTime   == FileTimeToInt64(t.idleTime)
        currentKernelTime == FileTimeToInt64(t.kernelTime)
        currentUserTime   == FileTimeToInt64(t.userTime)
        idleTimeDelta     == USub(currentIdleTime, st.idle)
        kernelTimeDelta   == USub(currentKernelTime, st.kernel)
        userTimeDelta     == USub(currentUserTime, st.user)
        totalActivityTime == TotalActivity(kernelTimeDelta, userTimeDelta)
        updated == UpdatedStatics(currentIdleTime, currentKernelTime, currentUserTime)
    IN  IF ~t.ok THEN [ret |-> Rat(-1, 1), st |-> [st EXCEPT !.first = TRUE]]
        ELSE IF st.first THEN [ret |-> Rat(0, 1), st |-> updated]
        ELSE IF totalActivityTime = 0 THEN [ret |-> Rat(0, 1), st |-> updated]
        ELSE [ret |-> UsagePercent(idleTimeDelta, totalActivityTime), st |-> updated]

getCurrentCpuUsage(st, t) ==
    LET currentIdleTime   == FileTimeToInt64(t.idleTime)
        currentKernelTime == FileTimeToInt64(t.kernelTime)
        currentUserTime   == FileTimeToInt64(t.userTime)
        idleTimeDelta     == USub(currentIdleTime, st.idle)
        kernelTimeDelta   == USub(currentKernelTime, st.kernel)
        userTimeDelta     == USub(currentUserTime, st.user)
        totalActivityTime == TotalActivity(kernelTimeDelta, userTimeDelta)
        updated == UpdatedStatics(currentIdleTime, currentKernelTime, currentUserTime)
    IN  IF ~t.ok THEN [ret |-> Rat(-1, 1), st |-> st]
        ELSE IF st.first THEN [ret |-> Rat(0, 1), st |-> updated]
        ELSE IF totalActivityTime = 0 THEN [ret |-> Rat(0, 1), st |-> updated]
        ELSE [ret |-> UsagePercent(idleTimeDelta, totalActivityTime), st |-> updated]

-----------------------------------------------------------------------------
(* RAM BLOCK *)

\* the MEMORYSTATUSEX fields getCurrentRamUsage reads, in bytes, drawn from
\* the multiples of 256 MiB up to MaxMemUnits of them
MaxMemUnits == 3

MemUnit == Pow2(28)

\* (GlobalMemoryStatusEx reports no more available than total memory)
MemoryStatus ==
    UNION {{[ullTotalPhys |-> a * MemUnit, ullAvailPhys |-> b * MemUnit] :
                b \in 0 .. a} : a \in 1 .. MaxMemUnits}

\* lines 128-133
getCurrentRamUsage_Swapped(memInfo) ==
    Rat(memInfo.ullAvailPhys - memInfo.ullTotalPhys, BytesPerGB)

getCurrentRamUsage(memInfo) ==
    Rat(memInfo.ullTotalPhys - memInfo.ullAvailPhys, BytesPerGB)

-----------------------------------------------------------------------------
(* GPU BLOCK: the path of nvidia-smi.exe *)

ExeName == "nvidia-smi.exe"

\* the vector commonPaths of getNVSMIPath, lines 255-259
commonPaths ==
    << "C:\\Program Files\\NVIDIA Corporation\\NVSMI\\nvidia-smi.exe",
       "C:\\Windows\\System32\\nvidia-smi.exe",
       "C:\\Windows\\Sysnative\\nvidia-smi.exe" >>

\* The machine as path discovery sees it:
\*   regKeyOpens  RegOpenKeyExA(...NVSMI) succeeds
\*   regValueOk   RegQueryValueExA("Path") succeeds, giving regValue
\*   exePath      what GetModuleFileNameA gives
\*   hasEnvPath   PATH is set, to envPath
\*   files        the paths for which PathFileExistsA is true
fileExists(env, path) == path \in env.files

\* s with a backslash appended unless s is empty or already ends with one
\* (lines 218 and 237)
WithBackslash(s) ==
    IF s # "" /\ Char(s, Len(s)) # "\\" THEN s \o "\\" ELSE s

\* getNVSMIPathFromRegistry, lines 210-225
getNVSMIPathFromRegistry(env) ==
    LET path == WithBackslash(env.regValue) \o ExeName
    IN  IF env.regKeyOpens /\ env.regValueOk /\ fileExists(env, path)
        THEN path
        ELSE ""

\* the index of the first ';' of s at or after i, or Len(s) + 1
RECURSIVE NextSemicolon(_, _)
NextSemicolon(s, i) ==
    IF i > Len(s) \/ Char(s, i) = ";" THEN i ELSE NextSemicolon(s, i + 1)

\* the while loop of findInPath, lines 236-243, over what is left of PATH:
\* std::getline(iss, dir, ';') takes the text before the next ';'
RECURSIVE SearchDirs(_, _, _)
SearchDirs(env, rest, exeName) ==
    IF rest = "" THEN ""
    ELSE LET j        == NextSemicolon(rest, 1)
             dir      == SubSeq(rest, 1, j - 1)
             fullPath == WithBackslash(dir) \o exeName
         IN  IF fileExists(env, fullPath) THEN fullPath
             ELSE SearchDirs(env, SubSeq(rest, j + 1, Len(rest)), exeName)

\* findInPath, lines 228-246
findInPath(env, exeName) ==
    IF ~env.hasEnvPath THEN "" ELSE SearchDirs(env, env.envPath, exeName)

\* exeDir.find_last_of("\\/"): the last index of a separator at or before i, or 0
RECURSIVE FindLastSeparator(_, _)
FindLastSeparator(s, i) ==
    IF i = 0 THEN 0
    ELSE IF Char(s, i) \in {"\\", "/"} THEN i
    ELSE FindLastSeparator(s, i - 1)

\* step 2 of getNVSMIPath, lines 260-262: the first common path that exists
RECURSIVE FirstCommonPath(_, _)
FirstCommonPath(env, i) ==
    IF i > Len(commonPaths) THEN ""
    ELSE IF fileExists(env, commonPaths[i]) THEN commonPaths[i]
    ELSE FirstCommonPath(env, i + 1)

\* step 3 of getNVSMIPath, lines 264-272: nvidia-smi.exe beside the
\* executable, or "" when it is not there
InExeFolder(env) ==
    LET pos    == FindLastSeparator(env.exePath, Len(env.exePath))
        exeDir == SubSeq(env.exePath, 1, pos) \o ExeName
    IN  IF pos # 0 /\ fileExists(env, exeDir) THEN exeDir ELSE ""

\* `if (!path.empty()) return path;` before the next step
OrElse(path, next) == IF path # "" THEN path ELSE next

\* getNVSMIPath, lines 249-280
getNVSMIPath_CommonFirst(env) ==
    OrElse(FirstCommonPath(env, 1),
    OrElse(getNVSMIPathFromRegistry(env),
    OrElse(InExeFolder(env),
    OrElse(findInPath(env, ExeName),
           ExeName))))

getNVSMIPath(env) ==
    OrElse(getNVSMIPathFromRegistry(env),
    OrElse(FirstCommonPath(env, 1),
    OrElse(InExeFolder(env),
    OrElse(findInPath(env, ExeName),
           ExeName))))

\* the command line of getXmlGpuData, lines 284-291
RECURSIVE Contains(_, _)
Contains(s, c) ==
    s # "" /\ (Char(s, 1) = c \/ Contains(SubSeq(s, 2, Len(s)), c))

CommandLine(nvsmiExePath) ==
    IF Contains(nvsmiExePath, "\\") \/ Contains(nvsmiExePath, " ")
    THEN "\"" \o nvsmiExePath \o "\" -q -x"
    ELSE nvsmiExePath \o " -q -x"

-----------------------------------------------------------------------------
(* GPU BLOCK: running the tool *)

\* One run of the tool as exec_no_console meets it:
\*   pipe    CreatePipe succeeds
\*   launch  CreateProcessA succeeds
\*   output  what the child writes to the pipe until it exits
\* exec_no_console, lines 139-202: the text captured, or the exception thrown
NoOutput == [kind |-> "empty", doc |-> <<>>]

exec_no_console(cmd, run) ==
    IF ~run.pipe THEN [thrown |-> "runtime_error", result |-> NoOutput]
    ELSE IF ~run.launch THEN [thrown |-> "runtime_error", result |-> NoOutput]
    ELSE [thrown |-> "none", result |-> run.output]

\* getXmlGpuData, lines 283-293
getXmlGpuData(env, run) == exec_no_console(CommandLine(getNVSMIPath(env)), run)

-----------------------------------------------------------------------------
(* GPU BLOCK: the document *)

\* The captured output is modelled by what pugixml makes of it:
\*   kind  "empty" (no text at all), "malformed" (load_string fails) or
\*         "xml" (load_string succeeds and gives the tree doc)
\* A node of the tree has a name, the text of its first text child and its
\* element children in document order.  NullNode is pugixml's empty handle.
NullNode == [isNull |-> TRUE, name |-> "", text |-> "", children |-> <<>>]

Elem(name, text, children) ==
    [isNull |-> FALSE, name |-> name, text |-> text, children |-> children]

\* xml_node::child(name): the first child of that name, or the empty handle
RECURSIVE ChildFrom(_, _, _)
ChildFrom(children, name, i) ==
    IF i > Len(children) THEN NullNode
    ELSE IF children[i].name = name THEN children[i]
    ELSE ChildFrom(children, name, i + 1)

Child(node, name) ==
    IF node.isNull THEN NullNode ELSE ChildFrom(node.children, name, 1)

\* xml_node::text().get(): the node's text, "" for the empty handle
Text(node) == IF node.isNull THEN "" ELSE node.text

-----------------------------------------------------------------------------
(* GPU BLOCK: std::stoul *)

IsSpace(c) == c \in {" ", "\t", "\n", "\r", "\f"}

RECURSIVE SkipSpaces(_, _)
SkipSpaces(s, i) ==
    IF i <= Len(s) /\ IsSpace(Char(s, i)) THEN SkipSpaces(s, i + 1) ELSE i

\* the index after the run of digits of s that starts at i
RECURSIVE DigitsEnd(_, _)
DigitsEnd(s, i) ==
    IF i <= Len(s) /\ IsDigit(Char(s, i)) THEN DigitsEnd(s, i + 1) ELSE i

RECURSIVE SkipZeros(_)
SkipZeros(d) ==
    IF Len(d) > 1 /\ Char(d, 1) = "0" THEN SkipZeros(SubSeq(d, 2, Len(d))) ELSE d

\* ULONG_MAX of the target (unsigned long has 32 bits), in decimal
UlongMaxText == "4294967295"

\* whether digit string a, of the length of b, is greater than b
RECURSIVE DigitsGreater(_, _)
DigitsGreater(a, b) ==
    /\ a # ""
    /\ \/ DigitValue(Char(a, 1)) > DigitValue(Char(b, 1))
       \/ /\ Char(a, 1) = Char(b, 1)
          /\ DigitsGreater(SubSeq(a, 2, Len(a)), SubSeq(b, 2, Len(b)))

ExceedsUlong(digits) ==
    LET d == SkipZeros(digits)
    IN  \/ Len(d) > Len(UlongMaxText)
        \/ Len(d) = Len(UlongMaxText) /\ DigitsGreater(d, UlongMaxText)

RECURSIVE DigitsToInt(_)
DigitsToInt(d) ==
    IF d = "" THEN 0
    ELSE 10 * DigitsToInt(SubSeq(d, 1, Len(d) - 1)) + DigitValue(Char(d, Len(d)))

\* std::stoul(str): leading white space and one '+' are skipped, the digits
\* that follow are converted and the rest of str is ignored; no digits is
\* std::invalid_argument, a value above ULONG_MAX is std::out_of_range.
\* (A '-' sign, which negates modulo 2^32, is in none of the model's texts.)
stoul(str) ==
    LET i      == SkipSpaces(str, 1)
        j      == IF i <= Len(str) /\ Char(str, i) = "+" THEN i + 1 ELSE i
        k      == DigitsEnd(str, j)
        digits == SubSeq(str, j, k - 1)
    IN  IF digits = "" THEN [thrown |-> "invalid_argument", value |-> 0]
        ELSE IF ExceedsUlong(digits) THEN [thrown |-> "out_of_range", value |-> 0]
        ELSE [thrown |-> "none", value |-> DigitsToInt(SkipZeros(digits))]

-----------------------------------------------------------------------------
(* GPU BLOCK: parseGpuData *)

\* struct GpuData, lines 56-64
GpuData(name, driverVersion, temperature, memoryTotal, memoryUsed, utilizationGpu) ==
    [name |-> name, driverVersion |-> driverVersion, temperature |-> temperature,
     memoryTotal |-> memoryTotal, memoryUsed |-> memoryUsed,
     utilizationGpu |-> utilizationGpu]

\* data.memoryTotal /= 1024, lines 315-316
MBToGB_Decimal(mb) == Rat(mb, 1000)

MBToGB(mb) == Rat(mb, MBPerGB)

\* the first exception among the conversions made, in the order of the code
FirstThrown(seq) ==
    IF \A i \in 1 .. Len(seq) : seq[i] = "none" THEN "none"
    ELSE seq[CHOOSE i \in 1 .. Len(seq) :
                /\ seq[i] # "none"
                /\ \A j \in 1 .. (i - 1) : seq[j] = "none"]

\* The body of `if (gpu_node)`, lines 301-323, from the conversions temp,
\* total, used and util of the four texts
FilledGpuData(doc, gpu_node, junk, temp, total, used, util) ==
    LET temperature_node == Child(Child(gpu_node, "temperature"), "gpu_temp")
        memory_node      == Child(gpu_node, "fb_memory_usage")
        utilization_node == Child(gpu_node, "utilization")
        thrown == FirstThrown(
            << IF temperature_node.isNull THEN "none" ELSE temp.thrown,
               IF memory_node.isNull THEN "none" ELSE total.thrown,
               IF memory_node.isNull THEN "none" ELSE used.thrown,
               IF utilization_node.isNull THEN "none" ELSE util.thrown >>)
    IN  [thrown |-> thrown,
         data |-> GpuData(
            Text(Child(gpu_node, "product_name")),
            Text(Child(Child(doc, "nvidia_smi_log"), "driver_version")),
            IF temperature_node.isNull THEN junk.temperature ELSE temp.value,
            IF memory_node.isNull THEN junk.memoryTotal ELSE MBToGB(total.value),
            IF memory_node.isNull THEN junk.memoryUsed ELSE MBToGB(used.value),
            IF utilization_node.isNull THEN junk.utilizationGpu ELSE util.value)]

\* parseGpuData, lines 296-326.  `GpuData data;` leaves the four numeric
\* members indeterminate: junk is what they hold before any assignment.
\* Gives the exception thrown, or "none" and the GpuData returned.
parseGpuData(doc, junk) ==
    LET gpu_node == Child(Child(doc, "nvidia_smi_log"), "gpu")
    IN  IF gpu_node.isNull
        THEN [thrown |-> "none",
              data |-> GpuData("", "", junk.temperature, junk.memoryTotal,
                               junk.memoryUsed, junk.utilizationGpu)]
        ELSE FilledGpuData(doc, gpu_node, junk,
                stoul(Text(Child(Child(gpu_node, "temperature"), "gpu_temp"))),
                stoul(Text(Child(Child(gpu_node, "fb_memory_usage"), "total"))),
                stoul(Text(Child(Child(gpu_node, "fb_memory_usage"), "used"))),
                stoul(Text(Child(Child(gpu_node, "utilization"), "gpu_util"))))

-----------------------------------------------------------------------------
(* WINDOW AND RENDERING BLOCK: refreshAllData *)

\* catch (const std::exception& e), line 351: the exceptions it catches
Caught_RuntimeErrorOnly(thrown) == thrown = "runtime_error"

Caught(thrown) == thrown \in {"runtime_error", "invalid_argument", "out_of_range"}

\* lines 360-365
CpuRamBlock(cpuUsage, ramUsage) ==
    IF RatGeqInt(cpuUsage, 0)
    THEN "CPU Usage: " \o FixedText(cpuUsage) \o "%\n"
            \o "RAM Usage: " \o FixedText(ramUsage) \o " GB\n"
    ELSE "Error getting CPU/RAM usage.\n"

GpuUnavailableText == "\n--- GPU Stats ---\n" \o "GPU data not available or initializing..."

GpuStatsText(data) ==
    "\n--- GPU Stats ---\n"
        \o "GPU: " \o data.name \o "\n"
        \o "Temp: " \o UIntToText(data.temperature) \o " C\n"
        \o "VRAM: " \o FixedText(data.memoryUsed) \o " GB / "
        \o FixedText(data.memoryTotal) \o " GB\n"
        \o "GPU Util: " \o UIntToText(data.utilizationGpu) \o " %"

\* lines 367-376
GpuBlock(available, data) ==
    IF available THEN GpuStatsText(data) ELSE GpuUnavailableText

\* strncpy_s(g_statsText, sizeof(g_statsText), ..., _TRUNCATE), line 377
Truncated_Whole(text) == text

Truncated(text) ==
    IF Len(text) > StatsTextSize - 1 THEN SubSeq(text, 1, StatsTextSize - 1) ELSE text

\* lines 343-344, once load_string has succeeded: parsed is what
\* parseGpuData gives
AfterParse(gpu, parsed) ==
    IF parsed.thrown # "none"
    THEN [thrown |-> parsed.thrown, available |-> gpu.available, data |-> gpu.data]
    ELSE [thrown |-> "none", available |-> TRUE, data |-> parsed.data]

\* lines 339-350: xml is what getXmlGpuData gives
AfterExec(gpu, xml, junk) ==
    IF xml.thrown # "none"
    THEN [thrown |-> xml.thrown, available |-> gpu.available, data |-> gpu.data]
    ELSE IF xml.result.kind = "xml"
    THEN AfterParse(gpu, parseGpuData(xml.result.doc, junk))
    ELSE [thrown |-> "none", available |-> FALSE, data |-> gpu.data]

\* lines 351-354: the handler sets g_gpuDataAvailable = false for the
\* exceptions it catches; tried is the state the try block left
AfterCatch(tried) ==
    IF tried.thrown # "none" /\ Caught(tried.thrown)
    THEN [tried EXCEPT !.available = FALSE]
    ELSE tried

\* the try block and its handler, lines 337-354: the exception thrown in the
\* block (thrown), and g_gpuDataAvailable and g_gpuData after the handler
GpuStep(gpu, env, run, junk) ==
    AfterCatch(AfterExec(gpu, getXmlGpuData(env, run), junk))

\* lines 356-379: the text written, from what the three steps gave
Report(cpu, ramUsage, g, text) ==
    [st        |-> cpu.st,
     cpuUsage  |-> cpu.ret,
     ramUsage  |-> ramUsage,
     available |-> g.available,
     data      |-> g.data,
     thrown    |-> g.thrown,
     escaped   |-> g.thrown # "none" /\ ~Caught(g.thrown),
     text      |-> IF g.thrown # "none" /\ ~Caught(g.thrown) THEN text
                   ELSE Truncated(CpuRamBlock(cpu.ret, ramUsage)
                                    \o GpuBlock(g.available, g.data))]

\* refreshAllData, lines 331-380, from the statics st, the GPU globals gpu,
\* the display text and what the machine gives this cycle (in.times,
\* in.memInfo, in.env, in.run, in.junk).  escaped: an exception left the
\* function, which then wrote no text and asked for no redraw.
refreshAllData(st, gpu, text, in) ==
    Report(getCurrentCpuUsage(st, in.times), getCurrentRamUsage(in.memInfo),
           GpuStep(gpu, in.env, in.run, in.junk), text)

-----------------------------------------------------------------------------
(* What the machine can give: the inputs of the operations *)

\* the FILETIME of a tick count
ToFileTime(n) ==
    [dwHighDateTime |-> n \div DwordSize, dwLowDateTime |-> n % DwordSize]

Times(idle, kernel, user) ==
    [ok |-> TRUE, idleTime |-> ToFileTime(idle), kernelTime |-> ToFileTime(kernel),
     userTime |-> ToFileTime(user)]

FailedRead == CHOOSE t \in SystemTimes : ~t.ok

\* a few readings for the specifications that explore the refresh cycle:
\* between them the usage is positive, zero and negative
FewTimes == {FailedRead, Times(0, 0, 0), Times(0, 1, 0), Times(2, 2, 0)}

\* a failed and a successful reading, for the specification that explores
\* the runs of the tool
TwoTimes == {FailedRead, Times(0, 1, 0)}

OneMemoryStatus == [ullTotalPhys |-> 2 * MemUnit, ullAvailPhys |-> MemUnit]

\* The documents.  A document is built from what its elements hold: a
\* number followed by a unit, some other text, or nothing when the element
\* is left out; the flags leave out a whole record.
Absent == [kind |-> "absent", n |-> 0, text |-> ""]
Number(n, unit) == [kind |-> "number", n |-> n, text |-> UIntToText(n) \o unit]
Words(text) == [kind |-> "text", n |-> 0, text |-> text]

Opt(name, f) == IF f.kind = "absent" THEN <<>> ELSE <<Elem(name, f.text, <<>>)>>

OptRecord(present, name, children) ==
    IF present THEN <<Elem(name, "", children)>> ELSE <<>>

Document(o) ==
    Elem("", "",
      OptRecord(o.log, "nvidia_smi_log",
        Opt("driver_version", o.driver_version)
        \o OptRecord(o.gpu, "gpu",
             Opt("product_name", o.product_name)
             \o OptRecord(o.temperature, "temperature", Opt("gpu_temp", o.gpu_temp))
             \o OptRecord(o.fb_memory_usage, "fb_memory_usage",
                          Opt("total", o.total) \o Opt("used", o.used))
             \o OptRecord(o.utilization, "utilization",
                          Opt("gpu_util", o.gpu_util)))))

FullA ==
    [log |-> TRUE, gpu |-> TRUE, driver_version |-> Words("550.54"),
     product_name |-> Words("NVIDIA GeForce RTX 4090"),
     temperature |-> TRUE, gpu_temp |-> Number(65, ""),
     fb_memory_usage |-> TRUE, total |-> Number(24576, ""), used |-> Number(4096, ""),
     utilization |-> TRUE, gpu_util |-> Number(12, "")]

\* a record as nvidia-smi writes it, with units after the numbers
FullB ==
    [log |-> TRUE, gpu |-> TRUE, driver_version |-> Words("551.23"),
     product_name |-> Words("RTX A2000"),
     temperature |-> TRUE, gpu_temp |-> Number(70, " C"),
     fb_memory_usage |-> TRUE, total |-> Number(6138, " MiB"),
     used |-> Number(1000, " MiB"),
     utilization |-> TRUE, gpu_util |-> Number(99, " %")]

FullDocuments == {FullA, FullB}

\* documents that lack a record or an element
LackingDocuments ==
    { [FullA EXCEPT !.log = FALSE],
      [FullA EXCEPT !.gpu = FALSE],
      [FullA EXCEPT !.temperature = FALSE],
      [FullA EXCEPT !.gpu_temp = Absent],
      [FullA EXCEPT !.fb_memory_usage = FALSE],
      [FullA EXCEPT !.total = Absent],
      [FullA EXCEPT !.used = Absent],
      [FullA EXCEPT !.utilization = FALSE],
      [FullA EXCEPT !.gpu_util = Absent],
      [FullA EXCEPT !.product_name = Absent],
      [FullA EXCEPT !.driver_version = Absent],
      [FullB EXCEPT !.temperature = FALSE, !.fb_memory_usage = FALSE,
                    !.utilization = FALSE] }

\* documents with an element that holds no number of the range of unsigned long
BadNumberDocuments ==
    { [FullA EXCEPT !.gpu_temp = Words("N/A")],
      [FullA EXCEPT !.used = Words("N/A")],
      [FullA EXCEPT !.gpu_util = Words("")],
      [FullA EXCEPT !.total = Words("99999999999")] }

DocumentOptions == FullDocuments \cup LackingDocuments \cup BadNumberDocuments

XmlOutput(o) == [kind |-> "xml", doc |-> Document(o), of |-> o]
EmptyOutput == [kind |-> "empty", doc |-> <<>>, of |-> FullA]
MalformedOutput == [kind |-> "malformed", doc |-> <<>>, of |-> FullA]

Run(pipe, launch, output) == [pipe |-> pipe, launch |-> launch, output |-> output]

PipeFails == Run(FALSE, FALSE, EmptyOutput)
LaunchFails == Run(TRUE, FALSE, EmptyOutput)

FailingRuns == {PipeFails, LaunchFails, Run(TRUE, TRUE, EmptyOutput),
                Run(TRUE, TRUE, MalformedOutput)}

AllRuns == FailingRuns \cup {Run(TRUE, TRUE, XmlOutput(o)) : o \in DocumentOptions}

FewRuns == {LaunchFails, Run(TRUE, TRUE, EmptyOutput),
            Run(TRUE, TRUE, XmlOutput(FullA)), Run(TRUE, TRUE, XmlOutput(FullB)),
            Run(TRUE, TRUE, XmlOutput([FullA EXCEPT !.gpu = FALSE]))}

\* what the numeric members of `GpuData data;` may hold before assignment
Junk(temperature, memoryTotal, memoryUsed, utilizationGpu) ==
    [temperature |-> temperature, memoryTotal |-> memoryTotal,
     memoryUsed |-> memoryUsed, utilizationGpu |-> utilizationGpu]

ZeroJunk == Junk(0, Rat(0, 1), Rat(0, 1), 0)
StackJunk == Junk(204, Rat(7, 2), Rat(204, 1), 52428)

\* the machine as path discovery sees it
Machine(regKeyOpens, regValueOk, regValue, exePath, hasEnvPath, envPath, files) ==
    [regKeyOpens |-> regKeyOpens, regValueOk |-> regValueOk, regValue |-> regValue,
     exePath |-> exePath, hasEnvPath |-> hasEnvPath, envPath |-> envPath,
     files |-> files]

CandidateFiles ==
    { "C:\\NV\\nvidia-smi.exe", commonPaths[1], commonPaths[2], commonPaths[3],
      "C:\\App\\nvidia-smi.exe", "C:\\P1\\nvidia-smi.exe", "C:\\P2\\nvidia-smi.exe",
      "nvidia-smi.exe" }

Machines ==
    { Machine(k, v, r, e, p[1], p[2], f) :
        k \in BOOLEAN, v \in BOOLEAN, r \in {"C:\\NV", "C:\\NV\\", ""},
        e \in {"C:\\App\\stats_display.exe", "stats_display.exe"},
        p \in {<<FALSE, "">>, <<TRUE, "C:\\P1;C:\\P2\\">>, <<TRUE, ";C:\\P2">>},
        f \in SUBSET CandidateFiles }

OneMachine ==
    Machine(TRUE, TRUE, "C:\\NV", "C:\\App\\stats_display.exe", TRUE, "C:\\P1;C:\\P2\\",
            {"C:\\NV\\nvidia-smi.exe"})

\* what one refresh reads
RefreshInput(times, memInfo, env, run, junk) ==
    [times |-> times, memInfo |-> memInfo, env |-> env, run |-> run, junk |-> junk]

\* whether the run gives a document that lacks a numeric element, so that
\* parseGpuData returns members it never assigned
ReadsJunk(run) ==
    /\ run.pipe /\ run.launch /\ run.output.kind = "xml"
    /\ LET o == run.output.of
       IN  ~(o.log /\ o.gpu /\ o.temperature /\ o.gpu_temp.kind # "absent"
             /\ o.fb_memory_usage /\ o.utilization)

GpuInputs(runs) ==
    {<<r, ZeroJunk>> : r \in runs} \cup {<<r, StackJunk>> : r \in {x \in runs : ReadsJunk(x)}}

RefreshInputs(times, runs) ==
    { RefreshInput(t, OneMemoryStatus, OneMachine, g[1], g[2]) :
        t \in times, g \in GpuInputs(runs) }

FewRefreshInputs == RefreshInputs(FewTimes, FewRuns)
AllRefreshInputs == RefreshInputs(TwoTimes, AllRuns)

-----------------------------------------------------------------------------
(* The state machine *)

CurrentStatics ==
    Statics(previousIdleTime, previousKernelTime, previousUserTime, firstCall)

CurrentGpu == [available |-> g_gpuDataAvailable, data |-> g_gpuData]

\* `last` records what the latest operation read and returned.  The deltas
\* are those of the readings themselves, in unsigned arithmetic modulo
\* Modulus, against the statics the call found.
NoCpu ==
    [called |-> FALSE, read |-> FALSE, wasFirst |-> FALSE, idle |-> 0, kernel |-> 0,
     user |-> 0, idleDelta |-> 0, activity |-> 0, wrapped |-> FALSE, ret |-> Rat(0, 1)]

CpuSeen(t, ret) ==
    LET idle   == FileTimeToInt64(t.idleTime)
        kernel == FileTimeToInt64(t.kernelTime)
        user   == FileTimeToInt64(t.userTime)
        kd     == (kernel - previousKernelTime) % Modulus
        ud     == (user - previousUserTime) % Modulus
    IN  IF ~t.ok THEN [NoCpu EXCEPT !.called = TRUE, !.wasFirst = firstCall, !.ret = ret]
        ELSE [called |-> TRUE, read |-> TRUE, wasFirst |-> firstCall,
              idle |-> idle, kernel |-> kernel, user |-> user,
              idleDelta |-> (idle - previousIdleTime) % Modulus,
              activity |-> (kd + ud) % Modulus,
              wrapped |-> kd + ud >= Modulus,
              ret |-> ret]

NoRam == [called |-> FALSE, memInfo |-> OneMemoryStatus, ret |-> Rat(0, 1)]

NoGpu ==
    [called |-> FALSE, run |-> PipeFails, junk |-> ZeroJunk, thrown |-> "none",
     escaped |-> FALSE]

NoPath == [called |-> FALSE, env |-> OneMachine, path |-> ""]

Nothing == [op |-> "", cpu |-> NoCpu, ram |-> NoRam, gpu |-> NoGpu, path |-> NoPath,
            drawn |-> "", refreshes |-> 0]

\* `history` keeps, across the operations, the counters of the latest call
\* of getCurrentCpuUsage whose read succeeded (any: whether there was one),
\* and how the call made by WM_CREATE ended: "none", "succeeded" or "failed"
NoHistory ==
    [any |-> FALSE, idle |-> 0, kernel |-> 0, user |-> 0, priming |-> "none"]

Sampled(h, t) ==
    IF t.ok
    THEN [h EXCEPT !.any = TRUE, !.idle = FileTimeToInt64(t.idleTime),
                   !.kernel = FileTimeToInt64(t.kernelTime),
                   !.user = FileTimeToInt64(t.userTime)]
    ELSE h

\* the locals of refreshAllData while it runs: the message that called it
\* (op), what the machine gives this cycle (in), cpuUsage, ramUsage and the
\* text of oss; done: whether a call has completed
NoCycle ==
    [op |-> "", in |-> RefreshInput(FailedRead, OneMemoryStatus, OneMachine,
                                    PipeFails, ZeroJunk),
     cpuUsage |-> Rat(0, 1), ramUsage |-> Rat(0, 1), oss |-> "", done |-> FALSE]

\* the zero-initialised global g_gpuData
ZeroGpuData == GpuData("", "", 0, Rat(0, 1), Rat(0, 1), 0)

Init ==
    /\ previousIdleTime = 0
    /\ previousKernelTime = 0
    /\ previousUserTime = 0
    /\ firstCall = TRUE
    /\ g_gpuDataAvailable = FALSE
    /\ g_gpuData = ZeroGpuData
    /\ g_statsText = "Initializing..."
    /\ hwnd = "none"
    /\ timerSet = FALSE
    /\ sizing = FALSE
    /\ invalidated = FALSE
    /\ timerElapse = 0
    /\ pc = "idle"
    /\ cycle = NoCycle
    /\ history = NoHistory
    /\ last = Nothing

SetStatics(st) ==
    /\ previousIdleTime' = st.idle
    /\ previousKernelTime' = st.kernel
    /\ previousUserTime' = st.user
    /\ firstCall' = st.first

\* a call of refreshAllData from the handler of message op
Refresh(op, in) ==
    \E r \in {refreshAllData(CurrentStatics, CurrentGpu, g_statsText, in)} :
        /\ SetStatics(r.st)
        /\ g_gpuDataAvailable' = r.available
        /\ g_gpuData' = r.data
        /\ g_statsText' = r.text
        /\ invalidated' = (IF r.escaped THEN invalidated ELSE TRUE)
        /\ hwnd' = (IF r.escaped THEN "crashed" ELSE hwnd)
        /\ history' = Sampled(history, in.times)
        /\ UNCHANGED stepVars
        /\ last' = [Nothing EXCEPT
                      !.op = op,
                      !.refreshes = 1,
                      !.cpu = CpuSeen(in.times, r.cpuUsage),
                      !.ram = [called |-> TRUE, memInfo |-> in.memInfo,
                               ret |-> r.ramUsage],
                      !.gpu = [called |-> TRUE, run |-> in.run, junk |-> in.junk,
                               thrown |-> r.thrown, escaped |-> r.escaped]]

\* WM_CREATE, lines 385-392 (the window is shown, and so awaits its first
\* WM_PAINT, at lines 506-507)
OnCreate(times) ==
    \E t \in times :
        \E r \in {getCurrentCpuUsage(CurrentStatics, t)} :
            /\ hwnd = "none"
            /\ hwnd' = "alive"
            /\ timerSet' = TRUE
            /\ timerElapse' = TimerElapse
            /\ invalidated' = TRUE
            /\ SetStatics(r.st)
            /\ history' = [Sampled(history, t) EXCEPT
                              !.priming = IF t.ok THEN "succeeded" ELSE "failed"]
            /\ last' = [Nothing EXCEPT !.op = "WM_CREATE", !.cpu = CpuSeen(t, r.ret)]
            /\ UNCHANGED <<gpuVars, g_statsText, sizing, stepVars>>

\* WM_ENTERSIZEMOVE, lines 393-397
WM_ENTERSIZEMOVE_KeepsTimer ==
    /\ hwnd = "alive"
    /\ ~sizing
    /\ sizing' = TRUE
    /\ last' = [Nothing EXCEPT !.op = "WM_ENTERSIZEMOVE"]
    /\ UNCHANGED <<cpuVars, gpuVars, g_statsText, hwnd, invalidated, timerSet,
                   timerElapse, stepVars, history>>

WM_ENTERSIZEMOVE ==
    /\ hwnd = "alive"
    /\ ~sizing
    /\ sizing' = TRUE
    /\ timerSet' = FALSE
    /\ timerElapse' = 0
    /\ last' = [Nothing EXCEPT !.op = "WM_ENTERSIZEMOVE"]
    /\ UNCHANGED <<cpuVars, gpuVars, g_statsText, hwnd, invalidated, stepVars, history>>

\* WM_EXITSIZEMOVE, lines 398-403
OnExitSizeMove(inputs) ==
    \E in \in inputs :
        /\ hwnd = "alive"
        /\ sizing
        /\ sizing' = FALSE
        /\ timerSet' = TRUE
        /\ timerElapse' = TimerElapse
        /\ Refresh("WM_EXITSIZEMOVE", in)

\* WM_TIMER, lines 404-409: the system posts it for a timer that is set
OnTimer(inputs) ==
    \E in \in inputs :
        /\ hwnd = "alive"
        /\ timerSet
        /\ Refresh("WM_TIMER", in)
        /\ UNCHANGED <<timerSet, timerElapse, sizing>>

\* WM_TIMER with an id other than CPU_USAGE_TIMER_ID, lines 404-409
WM_TIMER_OtherId_Refreshes ==
    \E in \in FewRefreshInputs :
        /\ hwnd = "alive"
        /\ Refresh("WM_TIMER other id", in)
        /\ UNCHANGED <<timerSet, timerElapse, sizing>>

WM_TIMER_OtherId ==
    /\ hwnd = "alive"
    /\ last' = [Nothing EXCEPT !.op = "WM_TIMER other id"]
    /\ UNCHANGED <<cpuVars, gpuVars, g_statsText, winVars, stepVars, history>>

\* WM_PAINT, lines 410-445
WM_PAINT ==
    /\ hwnd = "alive"
    /\ invalidated
    /\ invalidated' = FALSE
    /\ last' = [Nothing EXCEPT !.op = "WM_PAINT", !.drawn = g_statsText]
    /\ UNCHANGED <<cpuVars, gpuVars, g_statsText, hwnd, timerSet, timerElapse, sizing,
                   stepVars, history>>

\* WM_CLOSE, lines 446-448, whose DestroyWindow sends WM_DESTROY, lines 449-452
WM_CLOSE ==
    /\ hwnd = "alive"
    /\ hwnd' = "destroyed"
    /\ timerSet' = FALSE
    /\ timerElapse' = 0
    /\ last' = [Nothing EXCEPT !.op = "WM_CLOSE"]
    /\ UNCHANGED <<cpuVars, gpuVars, g_statsText, sizing, invalidated, stepVars, history>>

\* The program: the window procedure, message by message
WM_CREATE == OnCreate(FewTimes)
WM_EXITSIZEMOVE == OnExitSizeMove(FewRefreshInputs)
WM_TIMER == OnTimer(FewRefreshInputs)

Next ==
    \/ WM_CREATE
    \/ WM_ENTERSIZEMOVE
    \/ WM_EXITSIZEMOVE
    \/ WM_TIMER
    \/ WM_TIMER_OtherId
    \/ WM_PAINT
    \/ WM_CLOSE

Spec == Init /\ [][Next]_vars

\* The refresh cycle under every run of the tool: the window is created and
\* the timer ticks
CreateWindow == OnCreate(TwoTimes)
TimerTick == OnTimer(AllRefreshInputs)

NextRefresh == CreateWindow \/ TimerTick

SpecRefresh == Init /\ [][NextRefresh]_vars

\* The samplers called in any order with every reading
CallCpuUsage ==
    \E t \in SystemTimes :
        \E r \in {getCurrentCpuUsage(CurrentStatics, t)} :
            /\ SetStatics(r.st)
            /\ history' = Sampled(history, t)
            /\ last' = [Nothing EXCEPT !.op = "getCurrentCpuUsage",
                                       !.cpu = CpuSeen(t, r.ret)]
            /\ UNCHANGED <<gpuVars, g_statsText, winVars, stepVars>>

\* getCurrentRamUsage, lines 121-134: it writes no global
CallRamUsage ==
    \E m \in MemoryStatus :
        /\ last' = [Nothing EXCEPT !.op = "getCurrentRamUsage",
                      !.ram = [called |-> TRUE, memInfo |-> m,
                               ret |-> getCurrentRamUsage(m)]]
        /\ UNCHANGED <<cpuVars, gpuVars, g_statsText, winVars, stepVars, history>>

NextSamplers == CallCpuUsage \/ CallRamUsage

SpecSamplers == Init /\ [][NextSamplers]_vars

\* Path discovery on every machine: the machine is drawn at the start and
\* getNVSMIPath is applied to it
InitPath ==
    /\ previousIdleTime = 0
    /\ previousKernelTime = 0
    /\ previousUserTime = 0
    /\ firstCall = TRUE
    /\ g_gpuDataAvailable = FALSE
    /\ g_gpuData = ZeroGpuData
    /\ g_statsText = "Initializing..."
    /\ hwnd = "none"
    /\ timerSet = FALSE
    /\ sizing = FALSE
    /\ invalidated = FALSE
    /\ timerElapse = 0
    /\ pc = "idle"
    /\ cycle = NoCycle
    /\ history = NoHistory
    /\ \E env \in Machines :
          last = [Nothing EXCEPT !.path = [called |-> FALSE, env |-> env, path |-> ""]]

CallNVSMIPath ==
    /\ ~last.path.called
    /\ last' = [last EXCEPT !.op = "getNVSMIPath",
                            !.path.called = TRUE,
                            !.path.path = getNVSMIPath(last.path.env)]
    /\ UNCHANGED <<cpuVars, gpuVars, g_statsText, winVars, stepVars, history>>

NextPath == CallNVSMIPath

SpecPath == InitPath /\ [][NextPath]_vars

-----------------------------------------------------------------------------
(* Properties *)

StartsWith(s, prefix) ==
    Len(s) >= Len(prefix) /\ SubSeq(s, 1, Len(prefix)) = prefix

EndsWith(s, suffix) ==
    Len(s) >= Len(suffix) /\ SubSeq(s, Len(s) - Len(suffix) + 1, Len(s)) = suffix

\* a call of getCurrentCpuUsage has just read the counters
SampleTaken == last.cpu.called /\ last.cpu.read

\* C1: for two consecutive successful CPU samples whose kernelDelta +
\* userDelta is greater than 0, the usage returned for the second sample
\* lies in [0, 100], whatever the counter values.
C1_UsageWithinPercent ==
    (SampleTaken /\ ~last.cpu.wasFirst /\ last.cpu.activity > 0)
        => (RatGeqInt(last.cpu.ret, 0) /\ RatLeqInt(last.cpu.ret, 100))

\* C2: a call of getCurrentCpuUsage that finds firstCall set and reads the
\* counters returns exactly 0, whatever the counters are, and leaves the
\* baseline equal to the values just read.
C2_FirstSampleIsZero ==
    (SampleTaken /\ last.cpu.wasFirst)
        => /\ last.cpu.ret.num = 0
           /\ last.cpu.ret.den # 0
           /\ previousIdleTime = last.cpu.idle
           /\ previousKernelTime = last.cpu.kernel
           /\ previousUserTime = last.cpu.user

C2_Witness ==
    /\ SampleTaken /\ last.cpu.wasFirst
    /\ last.cpu.idle = 3 /\ last.cpu.kernel = 1 /\ last.cpu.user = 2

\* C3: on a successful call after the first, if kernelDelta + userDelta is 0
\* as an unsigned sum (also when it wraps to 0), the usage returned is 0 and
\* nothing was divided by zero.
C3_ZeroActivityIsZero ==
    (SampleTaken /\ ~last.cpu.wasFirst /\ last.cpu.activity = 0)
        => (last.cpu.ret.num = 0 /\ last.cpu.ret.den # 0)

C3_Witness ==
    /\ SampleTaken /\ ~last.cpu.wasFirst
    /\ last.cpu.activity = 0 /\ last.cpu.wrapped

\* C7: getCurrentRamUsage returns (total - available) / 2^30, which is not
\* negative when total >= available, and it changes no program state: the
\* CPU baseline, the GPU data and flag and the display text stay as they were.
C7_RamUsageIsPure ==
    [][last'.op = "getCurrentRamUsage"
        => /\ UNCHANGED <<cpuVars, gpuVars, g_statsText>>
           /\ LET m == last'.ram.memInfo
              IN  m.ullTotalPhys >= m.ullAvailPhys
                    => /\ RatEq(last'.ram.ret,
                                Rat(m.ullTotalPhys - m.ullAvailPhys, Pow2(30)))
                       /\ RatGeqInt(last'.ram.ret, 0)]_vars

C7_Witness ==
    /\ last.op = "getCurrentRamUsage"
    /\ last.ram.memInfo.ullTotalPhys > last.ram.memInfo.ullAvailPhys
    /\ last.ram.memInfo.ullAvailPhys > 0
    /\ ~firstCall /\ previousKernelTime # 0

\* a refresh has just run, and the tool ran and wrote its output
Refreshed == last.gpu.called

ToolRan == Refreshed /\ last.gpu.run.pipe /\ last.gpu.run.launch

\* the tool wrote a document: o is what its elements hold
GaveDocument == ToolRan /\ last.gpu.run.output.kind = "xml"

Given == last.gpu.run.output.of

HasGpuRecord(o) == o.log /\ o.gpu

\* the element is in the document, under its record
HasTemp(o) == o.temperature /\ o.gpu_temp.kind # "absent"
HasTotal(o) == o.fb_memory_usage /\ o.total.kind # "absent"
HasUsed(o) == o.fb_memory_usage /\ o.used.kind # "absent"
HasUtil(o) == o.utilization /\ o.gpu_util.kind # "absent"

\* an element that is in the document holds something that is no number
HasNonNumericField(o) ==
    \/ HasTemp(o) /\ o.gpu_temp.kind = "text"
    \/ HasTotal(o) /\ o.total.kind = "text"
    \/ HasUsed(o) /\ o.used.kind = "text"
    \/ HasUtil(o) /\ o.gpu_util.kind = "text"

\* C4: when the captured output is empty, is malformed, or is a document
\* without the nvidia_smi_log/gpu record, the refresh ends with
\* g_gpuDataAvailable = false and no exception leaves it.
C4_NoGpuRecordIsUnavailable ==
    (ToolRan /\ (\/ last.gpu.run.output.kind \in {"empty", "malformed"}
                 \/ GaveDocument /\ ~HasGpuRecord(Given)))
        => (~g_gpuDataAvailable /\ ~last.gpu.escaped)

\* C5: for a document whose GPU record carries gpu_temp, total, used and
\* gpu_util as numbers, the refresh sets g_gpuDataAvailable, stores the
\* temperature and the utilization of the document and the memory figures
\* divided by 1024, and the text shows the temperature and utilization as
\* integers and the memory with two decimals.
AllNumbers(o) ==
    /\ HasGpuRecord(o)
    /\ HasTemp(o) /\ o.gpu_temp.kind = "number"
    /\ HasTotal(o) /\ o.total.kind = "number"
    /\ HasUsed(o) /\ o.used.kind = "number"
    /\ HasUtil(o) /\ o.gpu_util.kind = "number"

ShownForA ==
    "\n--- GPU Stats ---\nGPU: NVIDIA GeForce RTX 4090\nTemp: 65 C\n"
        \o "VRAM: 4.00 GB / 24.00 GB\nGPU Util: 12 %"

ShownForB ==
    "\n--- GPU Stats ---\nGPU: RTX A2000\nTemp: 70 C\n"
        \o "VRAM: 0.98 GB / 5.99 GB\nGPU Util: 99 %"

C5_FullDocumentIsShown ==
    (GaveDocument /\ AllNumbers(Given))
        => /\ g_gpuDataAvailable
           /\ g_gpuData.temperature = Given.gpu_temp.n
           /\ g_gpuData.utilizationGpu = Given.gpu_util.n
           /\ g_gpuData.memoryTotal.den # 0 /\ g_gpuData.memoryUsed.den # 0
           /\ g_gpuData.memoryTotal.num * 1024 = Given.total.n * g_gpuData.memoryTotal.den
           /\ g_gpuData.memoryUsed.num * 1024 = Given.used.n * g_gpuData.memoryUsed.den
           /\ Given = FullA => EndsWith(g_statsText, ShownForA)
           /\ Given = FullB => EndsWith(g_statsText, ShownForB)

C5_Witness ==
    /\ GaveDocument /\ Given = FullB
    /\ g_gpuDataAvailable
    /\ EndsWith(g_statsText, ShownForB)

\* C6: getNVSMIPath returns the first candidate that exists, in the order:
\* the registry-derived path, the three well-known paths, the folder of the
\* executable, the PATH directories in their order; and the bare name when
\* none exists.
RegistryCandidates(env) ==
    IF env.regKeyOpens /\ env.regValueOk
    THEN IF env.regValue = "" THEN <<"nvidia-smi.exe">> ELSE <<"C:\\NV\\nvidia-smi.exe">>
    ELSE <<>>

ExeFolderCandidates(env) ==
    IF env.exePath = "C:\\App\\stats_display.exe"
    THEN <<"C:\\App\\nvidia-smi.exe">>
    ELSE <<>>

PathCandidates(env) ==
    IF ~env.hasEnvPath THEN <<>>
    ELSE IF env.envPath = "C:\\P1;C:\\P2\\"
    THEN <<"C:\\P1\\nvidia-smi.exe", "C:\\P2\\nvidia-smi.exe">>
    ELSE <<"nvidia-smi.exe", "C:\\P2\\nvidia-smi.exe">>

CandidatesInOrder(env) ==
    RegistryCandidates(env) \o commonPaths \o ExeFolderCandidates(env)
        \o PathCandidates(env)

FirstExisting(candidates, files) ==
    IF \A i \in 1 .. Len(candidates) : candidates[i] \notin files
    THEN "nvidia-smi.exe"
    ELSE candidates[CHOOSE i \in 1 .. Len(candidates) :
                        /\ candidates[i] \in files
                        /\ \A j \in 1 .. (i - 1) : candidates[j] \notin files]

C6_FirstExistingPathWins ==
    last.path.called
        => last.path.path = FirstExisting(CandidatesInOrder(last.path.env),
                                          last.path.env.files)

C6_Witness ==
    /\ last.path.called
    /\ last.path.env.regKeyOpens /\ last.path.env.regValueOk
    /\ last.path.env.regValue = "C:\\NV"
    /\ {"C:\\NV\\nvidia-smi.exe", "C:\\Windows\\System32\\nvidia-smi.exe",
        "C:\\P1\\nvidia-smi.exe"} \subseteq last.path.env.files
    /\ last.path.path = "C:\\NV\\nvidia-smi.exe"

\* C8: when CreatePipe fails, CreateProcessA fails or an element of the GPU
\* record holds text that is no number, the exception raised is caught in
\* refreshAllData: the refresh completes, writes the text with the
\* GPU-unavailable message, leaves g_gpuDataAvailable false, and nothing
\* reaches the window procedure.
Raises ==
    /\ Refreshed
    /\ \/ ~last.gpu.run.pipe
       \/ ~last.gpu.run.launch
       \/ GaveDocument /\ HasGpuRecord(Given) /\ HasNonNumericField(Given)

C8_ExceptionsAreCaught ==
    Raises
        => /\ ~last.gpu.escaped
           /\ hwnd = "alive"
           /\ invalidated
           /\ ~g_gpuDataAvailable
           /\ EndsWith(g_statsText,
                "\n--- GPU Stats ---\nGPU data not available or initializing...")

C8_Witness ==
    /\ Raises /\ GaveDocument
    /\ last.gpu.thrown = "invalid_argument"
    /\ ~g_gpuDataAvailable

\* C9: after every refresh the CPU/RAM block of the text is the error text
\* exactly when the read of the counters failed in that cycle; in every other
\* cycle it shows the CPU usage and RAM usage lines.
C9_ErrorTextOnlyOnFailedRead ==
    Refreshed
        => /\ ~last.cpu.read <=> StartsWith(g_statsText, "Error getting CPU/RAM usage.\n")
           /\ last.cpu.read <=> StartsWith(g_statsText, "CPU Usage: ")

\* C10: for a document with the GPU record and no element that is not a
\* number, each of temperature, memory total, memory used and utilization
\* whose element is missing is stored as zero, and a missing name or driver
\* version as empty text; the GPU data is marked available; this holds when
\* the sub-record is missing and when only its element is.
C10_MissingElementsAreZero ==
    (GaveDocument /\ HasGpuRecord(Given) /\ ~HasNonNumericField(Given))
        => /\ g_gpuDataAvailable
           /\ ~last.gpu.escaped
           /\ ~HasTemp(Given) => g_gpuData.temperature = 0
           /\ ~HasTotal(Given) => g_gpuData.memoryTotal.num = 0
           /\ ~HasUsed(Given) => g_gpuData.memoryUsed.num = 0
           /\ ~HasUtil(Given) => g_gpuData.utilizationGpu = 0
           /\ Given.product_name.kind = "absent" => g_gpuData.name = ""
           /\ Given.driver_version.kind = "absent" => g_gpuData.driverVersion = ""

-----------------------------------------------------------------------------
(* The timer and the window messages *)

\* C11: in every reachable state the timer is set exactly when the window
\* has been created, is not destroyed and is not inside a size/move loop;
\* the state WM_ENTERSIZEMOVE leaves has no timer; and a WM_TIMER of the
\* refresh timer is never handled inside a size/move loop (WM_TIMER leaves
\* `sizing` as it found it, so a state it leaves inside the loop would be a
\* refresh started between WM_ENTERSIZEMOVE and WM_EXITSIZEMOVE).
C11_TimerArmedOutsideResize ==
    /\ timerSet <=> (hwnd = "alive" /\ ~sizing)
    /\ last.op = "WM_ENTERSIZEMOVE" => ~timerSet /\ sizing
    /\ last.op = "WM_TIMER" => ~sizing /\ timerSet

\* a size/move loop has begun on a window whose timer was running
C11_Witness ==
    /\ last.op = "WM_ENTERSIZEMOVE"
    /\ hwnd = "alive"
    /\ sizing
    /\ ~timerSet

\* the state a handler leaves shows one complete call of refreshAllData: the
\* three samplers were called, a report was written and the redraw asked for
RanOneRefresh ==
    /\ last.refreshes = 1
    /\ last.cpu.called /\ last.ram.called /\ last.gpu.called
    /\ invalidated
    /\ g_statsText # "Initializing..."

\* C12: every step of the window procedure that handles WM_EXITSIZEMOVE
\* leaves the timer set with a period of 250 ms and has run refreshAllData
\* once; every step that handles WM_TIMER with the refresh timer's id has
\* run it once; and a step that handles any other message has run no
\* refresh: it called neither the RAM nor the GPU sampler and left the GPU
\* globals and the display text as they were.
C12_RefreshPerMessage ==
    [][ /\ last'.op = "WM_EXITSIZEMOVE" =>
              timerSet' /\ timerElapse' = TimerElapse /\ RanOneRefresh'
        /\ last'.op = "WM_TIMER" => RanOneRefresh'
        /\ last'.op \notin {"WM_EXITSIZEMOVE", "WM_TIMER"} =>
              /\ last'.refreshes = 0
              /\ ~last'.ram.called /\ ~last'.gpu.called
              /\ UNCHANGED <<gpuVars, g_statsText>> ]_vars

\* the size/move loop has ended: the timer runs again and one refresh ran
C12_Witness ==
    /\ last.op = "WM_EXITSIZEMOVE"
    /\ last.refreshes = 1
    /\ timerSet /\ timerElapse = TimerElapse
    /\ ~sizing

-----------------------------------------------------------------------------
(* Refresh after refresh *)

CpuErrorText == "Error getting CPU/RAM usage.\n"

\* C13: every refresh calls the three samplers, whatever the refresh before
\* it left; a refresh that follows one that ended with the GPU unavailable
\* message, and whose tool run gives a well-formed document, ends with the
\* GPU marked available and the populated GPU block in the text; a refresh
\* that follows one that ended with the CPU error text, and whose counter
\* read succeeds, ends with the CPU/RAM lines in the text.
C13_FailureIsNotSticky ==
    [][ last'.refreshes = 1 =>
          /\ last'.cpu.called /\ last'.ram.called /\ last'.gpu.called
          /\ ( /\ EndsWith(g_statsText, GpuUnavailableText)
               /\ last'.gpu.run.pipe /\ last'.gpu.run.launch
               /\ last'.gpu.run.output.kind = "xml" )
                => /\ g_gpuDataAvailable'
                   /\ EndsWith(g_statsText', GpuStatsText(g_gpuData'))
          /\ (StartsWith(g_statsText, CpuErrorText) /\ last'.cpu.read)
                => StartsWith(g_statsText', "CPU Usage: ") ]_vars

\* what the document of this cycle holds for a numeric element: its number,
\* or zero when the element is not in the document
NumberIn(present, f) == IF present /\ f.kind = "number" THEN f.n ELSE 0

TextIn(f) == IF f.kind = "absent" THEN "" ELSE f.text

\* the GPU figures the document o of this cycle gives
FiguresOf(o) ==
    [name           |-> IF HasGpuRecord(o) THEN TextIn(o.product_name) ELSE "",
     driverVersion  |-> IF o.log THEN TextIn(o.driver_version) ELSE "",
     temperature    |-> NumberIn(HasGpuRecord(o) /\ HasTemp(o), o.gpu_temp),
     memoryTotal    |-> Rat(NumberIn(HasGpuRecord(o) /\ HasTotal(o), o.total), MBPerGB),
     memoryUsed     |-> Rat(NumberIn(HasGpuRecord(o) /\ HasUsed(o), o.used), MBPerGB),
     utilizationGpu |-> NumberIn(HasGpuRecord(o) /\ HasUtil(o), o.gpu_util)]

ShowsUnavailable == EndsWith(g_statsText, GpuUnavailableText)

\* the text ends with the populated GPU block of the figures that the
\* document of this cycle gives
ShowsThisCycle == GaveDocument /\ EndsWith(g_statsText, GpuStatsText(FiguresOf(Given)))

\* C14: after every refresh the text ends with the GPU block in one of two
\* forms, never both: the unavailable message, or the populated block; and
\* a populated block shows the name, temperature, memory and utilization
\* of the document the tool wrote in this same cycle (zero or empty for an
\* element the document lacks), never figures from anywhere else.
C14_GpuBlockIsOfThisCycle ==
    Refreshed =>
        /\ ShowsUnavailable \/ ShowsThisCycle
        /\ ~(ShowsUnavailable /\ ShowsThisCycle)

-----------------------------------------------------------------------------
(* The display buffer *)

\* the text of n copies of s
RECURSIVE Repeat(_, _)
Repeat(str, n) ==
    IF n = 0 THEN ""
    ELSE IF n % 2 = 1 THEN Repeat(str, n - 1) \o str
    ELSE Repeat(str \o str, n \div 2)

\* the document of FullA for a GPU whose product name has n characters
Named(n) == [FullA EXCEPT !.product_name = Words(Repeat("N", n))]

\* the length of product name with which the report of a refresh whose
\* counter read failed fills the buffer exactly, up to its terminating NUL
FitLen == (StatsTextSize - 1) - Len(CpuErrorText \o GpuStatsText(FiguresOf(Named(0))))

\* how much longer the CPU/RAM lines are than the error line
LinesExtra == Len(CpuRamBlock(Rat(0, 1), Rat(1, 4))) - Len(CpuErrorText)

\* product names around the capacity of the buffer, for either form of the
\* CPU/RAM block, and far beyond it
NameLengths ==
    {FitLen - LinesExtra - 1, FitLen - LinesExtra, FitLen - LinesExtra + 1,
     FitLen - 1, FitLen, FitLen + 1, StatsTextSize + StatsTextSize}

LongNameRuns == {LaunchFails} \cup {Run(TRUE, TRUE, XmlOutput(Named(n))) : n \in NameLengths}

LongNameInputs == RefreshInputs(FewTimes, LongNameRuns)

LongNameTick == OnTimer(LongNameInputs)

NextBuffer == CreateWindow \/ LongNameTick

SpecBuffer == Init /\ [][NextBuffer]_vars

\* the report that the latest refresh formatted, whatever its length
FormattedReport ==
    CpuRamBlock(last.cpu.ret, last.ram.ret) \o GpuBlock(g_gpuDataAvailable, g_gpuData)

Min(a, b) == IF a < b THEN a ELSE b

\* C15: in every reachable state the text in g_statsText has at most
\* 1023 characters before its NUL (the write never passes the 1024 bytes
\* of the buffer), and after a refresh it is the report that refresh
\* formatted when the report fits, and otherwise the first 1023 characters
\* of it.
C15_BufferHoldsReportOrPrefix ==
    /\ Len(g_statsText) <= StatsTextSize - 1
    /\ Refreshed =>
          /\ Len(g_statsText) = Min(Len(FormattedReport), StatsTextSize - 1)
          /\ StartsWith(FormattedReport, g_statsText)

\* a refresh formatted a report longer than the buffer, from a long GPU name
C15_Witness ==
    /\ Refreshed
    /\ GaveDocument
    /\ Len(Given.product_name.text) > FitLen
    /\ Len(FormattedReport) > StatsTextSize - 1
    /\ Len(g_statsText) = StatsTextSize - 1

-----------------------------------------------------------------------------
(* The baseline of the CPU sampler *)

\* the usage that the counters idle, kernel and user give against the
\* sample h, in the unsigned arithmetic of the counters
DeltaUsage(idle, kernel, user, h) ==
    LET idleDelta == (idle - h.idle) % Modulus
        kernelDelta == (kernel - h.kernel) % Modulus
        userDelta == (user - h.user) % Modulus
        activity  == (kernelDelta + userDelta) % Modulus
    IN  IF activity = 0 THEN Rat(0, 1) ELSE Rat(100 * (activity - idleDelta), activity)

\* C16: every call of getCurrentCpuUsage whose read succeeds (a first call,
\* a call with zero activity, a normal call) leaves the three baseline
\* counters equal to the counters it read and firstCall cleared; and when
\* an earlier call had succeeded, the usage it returns is the usage of its
\* counters against the counters of the latest call that succeeded before
\* it, whatever calls failed in between.
C16_BaselineIsLatestSample ==
    [][ (last'.cpu.called /\ last'.cpu.read) =>
          /\ previousIdleTime' = last'.cpu.idle
          /\ previousKernelTime' = last'.cpu.kernel
          /\ previousUserTime' = last'.cpu.user
          /\ ~firstCall'
          /\ history.any =>
                RatEq(last'.cpu.ret,
                      DeltaUsage(last'.cpu.idle, last'.cpu.kernel, last'.cpu.user,
                                 history)) ]_vars

\* a call with activity and idle time since the sample before it has
\* replaced the baseline
C16_Witness ==
    /\ SampleTaken
    /\ ~last.cpu.wasFirst
    /\ last.cpu.activity > 0
    /\ last.cpu.idleDelta > 0
    /\ previousIdleTime = last.cpu.idle
    /\ previousKernelTime = last.cpu.kernel
    /\ previousUserTime = last.cpu.user

\* C19: a call of getCurrentCpuUsage whose read fails returns -1 and leaves
\* the three baseline counters and firstCall as they were; a call whose
\* read succeeds when no call has succeeded before returns 0, however many
\* calls failed before it; and a call whose read succeeds right after a
\* failed call returns the usage of its counters against the latest call
\* that succeeded, so over the whole interval since that sample.
C19_FailedReadKeepsBaseline ==
    [][ /\ (last'.cpu.called /\ ~last'.cpu.read) =>
              /\ last'.cpu.ret = Rat(-1, 1)
              /\ UNCHANGED cpuVars
        /\ (last'.cpu.called /\ last'.cpu.read /\ ~history.any) =>
              last'.cpu.ret = Rat(0, 1)
        /\ ( /\ last.cpu.called /\ ~last.cpu.read
             /\ last'.cpu.called /\ last'.cpu.read /\ history.any ) =>
              RatEq(last'.cpu.ret,
                    DeltaUsage(last'.cpu.idle, last'.cpu.kernel, last'.cpu.user,
                               history)) ]_vars

\* a read has failed after a sample was taken, and the baseline is still
\* that sample
C19_Witness ==
    /\ last.cpu.called
    /\ ~last.cpu.read
    /\ history.any
    /\ ~firstCall
    /\ previousIdleTime = history.idle /\ previousIdleTime > 0
    /\ previousKernelTime = history.kernel
    /\ previousUserTime = history.user

\* the usage of the deltas that the latest call of getCurrentCpuUsage saw
UsageOfDeltas ==
    IF last.cpu.activity = 0 THEN Rat(0, 1)
    ELSE Rat(100 * (last.cpu.activity - last.cpu.idleDelta), last.cpu.activity)

\* C18: no refresh runs before the call of getCurrentCpuUsage that
\* WM_CREATE makes; and when that call read the counters, every refresh
\* finds firstCall = false, and a refresh that reads the counters shows in
\* the text the CPU usage of its deltas against the baseline, with the RAM
\* line after it.
C18_PrimedBeforeFirstRefresh ==
    Refreshed =>
        /\ history.priming # "none"
        /\ history.priming = "succeeded" =>
              /\ ~last.cpu.wasFirst
              /\ last.cpu.read =>
                    /\ StartsWith(g_statsText, "CPU Usage: ")
                    /\ StartsWith(g_statsText, CpuRamBlock(UsageOfDeltas, last.ram.ret))

-----------------------------------------------------------------------------
(* The refresh cycle, statement by statement *)

\* The message loop of WinMain, lines 509-514: GetMessageA is called again
\* only when DispatchMessageA has returned, and nothing that refreshAllData
\* calls retrieves or dispatches a message (no callback timer, no second
\* thread, blocking ReadFile and WaitForSingleObject in exec_no_console).
\* So a message is handled only when no handler is running.
MessageLoopReady_Reentrant == TRUE

MessageLoopReady == pc = "idle"

StepInputs == RefreshInputs(TwoTimes, FewRuns)

\* the buffer while strncpy_s copies: the first k characters of the new
\* text, followed by what the old text had beyond them
PartlyCopied(new, old, k) ==
    SubSeq(new, 1, k) \o (IF Len(old) > k THEN SubSeq(old, k + 1, Len(old)) ELSE "")

\* WM_TIMER with the refresh timer's id, lines 404-406, up to the call of
\* refreshAllData
BeginTimer ==
    \E in \in StepInputs :
        /\ MessageLoopReady
        /\ hwnd = "alive"
        /\ timerSet
        /\ pc' = "cpu"
        /\ cycle' = [cycle EXCEPT !.op = "WM_TIMER", !.in = in]
        /\ last' = [Nothing EXCEPT !.op = "WM_TIMER"]
        /\ UNCHANGED <<cpuVars, gpuVars, g_statsText, winVars, history>>

\* WM_EXITSIZEMOVE, lines 398-401, up to the call of refreshAllData
BeginExitSizeMove ==
    \E in \in StepInputs :
        /\ MessageLoopReady
        /\ hwnd = "alive"
        /\ sizing
        /\ sizing' = FALSE
        /\ timerSet' = TRUE
        /\ timerElapse' = TimerElapse
        /\ pc' = "cpu"
        /\ cycle' = [cycle EXCEPT !.op = "WM_EXITSIZEMOVE", !.in = in]
        /\ last' = [Nothing EXCEPT !.op = "WM_EXITSIZEMOVE"]
        /\ UNCHANGED <<cpuVars, gpuVars, g_statsText, hwnd, invalidated, history>>

\* line 332: double cpuUsage = getCurrentCpuUsage()
RefreshCpu ==
    \E r \in {getCurrentCpuUsage(CurrentStatics, cycle.in.times)} :
        /\ pc = "cpu"
        /\ SetStatics(r.st)
        /\ history' = Sampled(history, cycle.in.times)
        /\ cycle' = [cycle EXCEPT !.cpuUsage = r.ret]
        /\ pc' = "ram"
        /\ UNCHANGED <<gpuVars, g_statsText, winVars, last>>

\* line 333: double ramUsage = getCurrentRamUsage()
RefreshRam ==
    /\ pc = "ram"
    /\ cycle' = [cycle EXCEPT !.ramUsage = getCurrentRamUsage(cycle.in.memInfo)]
    /\ pc' = "gpu"
    /\ UNCHANGED <<cpuVars, gpuVars, g_statsText, winVars, history, last>>

\* lines 337-354: the try block and its handler
RefreshGpu ==
    \E g \in {GpuStep(CurrentGpu, cycle.in.env, cycle.in.run, cycle.in.junk)} :
        /\ pc = "gpu"
        /\ g_gpuDataAvailable' = g.available
        /\ g_gpuData' = g.data
        /\ pc' = "format"
        /\ UNCHANGED <<cpuVars, g_statsText, winVars, cycle, history, last>>

\* lines 357-376: the report is formatted into oss
RefreshFormat ==
    /\ pc = "format"
    /\ cycle' = [cycle EXCEPT !.oss = CpuRamBlock(cycle.cpuUsage, cycle.ramUsage)
                                        \o GpuBlock(g_gpuDataAvailable, g_gpuData)]
    /\ pc' = "write"
    /\ UNCHANGED <<cpuVars, gpuVars, g_statsText, winVars, history, last>>

\* line 377: strncpy_s has copied part of the text
RefreshWrite ==
    \E k \in {1, Len(Truncated(cycle.oss)) \div 2} :
        /\ pc = "write"
        /\ g_statsText' = PartlyCopied(Truncated(cycle.oss), g_statsText, k)
        /\ pc' = "copying"
        /\ UNCHANGED <<cpuVars, gpuVars, winVars, cycle, history, last>>

\* line 377: strncpy_s returns
RefreshCopied ==
    /\ pc = "copying"
    /\ g_statsText' = Truncated(cycle.oss)
    /\ pc' = "invalidate"
    /\ UNCHANGED <<cpuVars, gpuVars, winVars, cycle, history, last>>

\* line 379: InvalidateRect, and the return to the message loop
RefreshInvalidate ==
    /\ pc = "invalidate"
    /\ invalidated' = TRUE
    /\ cycle' = [cycle EXCEPT !.done = TRUE]
    /\ pc' = "idle"
    /\ UNCHANGED <<cpuVars, gpuVars, g_statsText, hwnd, timerSet, sizing, timerElapse,
                   history, last>>

\* the other messages, taken from the queue by the message loop
DispatchCreate == MessageLoopReady /\ OnCreate(TwoTimes)
DispatchEnterSizeMove == MessageLoopReady /\ WM_ENTERSIZEMOVE
DispatchPaint == MessageLoopReady /\ WM_PAINT
DispatchClose == MessageLoopReady /\ WM_CLOSE

NextSteps ==
    \/ DispatchCreate
    \/ DispatchEnterSizeMove
    \/ DispatchPaint
    \/ DispatchClose
    \/ BeginTimer
    \/ BeginExitSizeMove
    \/ RefreshCpu
    \/ RefreshRam
    \/ RefreshGpu
    \/ RefreshFormat
    \/ RefreshWrite
    \/ RefreshCopied
    \/ RefreshInvalidate

SpecSteps == Init /\ [][NextSteps]_vars

\* the order of the statements of refreshAllData
StepOrder ==
    {<<"idle", "cpu">>, <<"cpu", "ram">>, <<"ram", "gpu">>, <<"gpu", "format">>,
     <<"format", "write">>, <<"write", "copying">>, <<"copying", "invalidate">>,
     <<"invalidate", "idle">>}

\* C17: a refresh that has started goes through its statements in the
\* order CPU sample, RAM sample, GPU sample, format, buffer write, redraw
\* request, and until it has returned no message is handled: no other
\* refresh starts, no handler changes the window, the timer or the record
\* of the latest message; and every WM_PAINT is handled outside a refresh
\* and draws a whole text: the report of the latest refresh that returned,
\* cut to the buffer, or the initial text when none has.
C17_RefreshRunsToCompletion ==
    [][ /\ pc' # pc => <<pc, pc'>> \in StepOrder
        /\ pc # "idle" =>
              /\ pc' # pc
              /\ last' = last
              /\ UNCHANGED <<hwnd, sizing, timerSet, timerElapse>>
        /\ (last'.op = "WM_PAINT" /\ invalidated /\ ~invalidated') =>
              /\ pc = "idle"
              /\ last'.drawn = IF cycle.done THEN Truncated(cycle.oss)
                                ELSE "Initializing..." ]_vars

\* a refresh is in the middle of writing the buffer, which holds neither
\* the old nor the new text, while a WM_PAINT is pending
C17_Witness ==
    /\ pc = "copying"
    /\ invalidated
    /\ cycle.done
    /\ g_statsText # Truncated(cycle.oss)
    /\ Len(g_statsText) > 1

=============================================================================
